---- MODULE Spec2Model ----
(***************************************************************************)
(* A model of the asyncio web crawler of src/src/crawler: the URL helpers  *)
(* of utils.py as operators, and Crawler (core.py) as a state machine      *)
(* whose steps are the stretches of code between two suspension points     *)
(* (queue.get, the semaphore, client.get, queue.join, gather).             *)
(*                                                                         *)
(* A URL string is represented by what urllib.parse.urlparse makes of it:  *)
(*   [scheme, netloc, rooted, segs, frag]                                  *)
(* where the path is "/"-joined segs, with a leading "/" when rooted, and  *)
(* a segment is [root, ext], the two halves os.path.splitext gives it.     *)
(* Queries and params are left out; no segment is "." or "..".             *)
(***************************************************************************)
EXTENDS Integers, Sequences, FiniteSets, TLC

\* ------------------------------------------------------------------ bounds
\* concurrency arguments tried: 0..MaxConcurrency
MaxConcurrency == 2
\* max_depth arguments tried: -1..MaxDepthArg
MaxDepthArg == 3

\* ------------------------------------------------------- URL representation
Seg(root, ext) == [root |-> root, ext |-> ext]

EmptySeg == Seg("", "")

Url(scheme, netloc, rooted, segs, frag) ==
    [scheme |-> scheme, netloc |-> netloc, rooted |-> rooted, segs |-> segs, frag |-> frag]

\* Python's None for an Optional[str]; it is also what '' parses to, and the
\* code tests both with `not x`.
NoneUrl == Url("", "", FALSE, <<>>, "")

Http(netloc, segs) == Url("http", netloc, segs # <<>>, segs, "")

\* a path-only reference such as '/a' (rooted) or 'p' (relative)
Ref(rooted, segs) == Url("", "", rooted, segs, "")

\* ------------------------------------------------------------- utils.py
\* urllib.parse.uses_relative / uses_netloc, restricted to the schemes used
uses_relative == {"", "http", "https", "ftp"}

uses_netloc == {"", "http", "https", "ftp"}

\* path.split('/') as a Python list of segments
PathParts(u) ==
    IF u.rooted THEN <<EmptySeg>> \o u.segs
    ELSE IF u.segs = <<>> THEN <<EmptySeg>> ELSE u.segs

\* segments[1:-1] = filter(None, segments[1:-1])
DropEmptyMiddle(parts) ==
    IF Len(parts) <= 2 THEN parts
    ELSE <<parts[1]>>
         \o SelectSeq(SubSeq(parts, 2, Len(parts) - 1), LAMBDA s : s # EmptySeg)
         \o <<parts[Len(parts)]>>

\* urllib.parse.urljoin(base, url)
urljoin(base, url) ==
    IF base = NoneUrl THEN url
    ELSE IF url = NoneUrl THEN base
    ELSE LET scheme == IF url.scheme = "" THEN base.scheme ELSE url.scheme
         IN  IF scheme # base.scheme \/ scheme \notin uses_relative THEN url
             ELSE IF scheme \in uses_netloc /\ url.netloc # ""
                  THEN Url(scheme, url.netloc, url.rooted, url.segs, url.frag)
             ELSE LET netloc == IF scheme \in uses_netloc THEN base.netloc ELSE url.netloc
                  IN  IF url.segs = <<>> /\ ~url.rooted
                      THEN Url(scheme, netloc, base.rooted, base.segs, url.frag)
                      ELSE LET bparts == PathParts(base)
                               bdir == IF bparts[Len(bparts)] # EmptySeg
                                       THEN SubSeq(bparts, 1, Len(bparts) - 1)
                                       ELSE bparts
                               parts == IF url.rooted THEN PathParts(url)
                                        ELSE DropEmptyMiddle(bdir \o PathParts(url))
                           IN  IF parts = <<>> \/ parts = <<EmptySeg>>
                               THEN Url(scheme, netloc, TRUE, <<EmptySeg>>, url.frag)
                               ELSE IF parts[1] = EmptySeg
                                    THEN Url(scheme, netloc, TRUE, Tail(parts), url.frag)
                                    ELSE Url(scheme, netloc, FALSE, parts, url.frag)

\* a mutant of normalize_url: the netloc test is dropped
normalize_url_scheme_only(base_url, link) ==
    LET absolute_url == urljoin(base_url, link)
    IN  IF absolute_url.scheme = "" THEN NoneUrl
        ELSE [absolute_url EXCEPT !.frag = ""]

normalize_url(base_url, link) ==
    LET absolute_url == urljoin(base_url, link)
    IN  IF absolute_url.scheme = "" \/ absolute_url.netloc = "" THEN NoneUrl
        ELSE [absolute_url EXCEPT !.frag = ""]

\* str.lower() on the extensions used
Lower(ext) ==
    CASE ext = ".JPG" -> ".jpg"
      [] ext = ".PDF" -> ".pdf"
      [] ext = "PNG" -> "png"
      [] OTHER -> ext

\* get_extension: None is ""
get_extension(url) ==
    IF url.segs = <<>> THEN ""
    ELSE Lower(url.segs[Len(url.segs)].ext)

\* get_domain returns parsed.netloc
get_domain(url) == url.netloc

\* a mutant of is_valid_url: the extension blacklist is not consulted
is_valid_url_no_blacklist(url, allowed, blacklist) ==
    /\ url.scheme \in {"http", "https"}
    /\ (allowed # {} => (url.netloc # "" /\ url.netloc \in allowed))

\* a mutant of is_valid_url: the test on the extension is inverted, so the
\* blacklist acts as a list of the only extensions let through
is_valid_url_blacklist_inverted(url, allowed, blacklist) ==
    /\ url.scheme \in {"http", "https"}
    /\ (allowed # {} => (url.netloc # "" /\ url.netloc \in allowed))
    /\ (blacklist # {} =>
           LET ext == get_extension(url) IN ~(ext # "" /\ ext \notin blacklist))

is_valid_url(url, allowed, blacklist) ==
    /\ url.scheme \in {"http", "https"}
    /\ (allowed # {} => (url.netloc # "" /\ url.netloc \in allowed))
    /\ (blacklist # {} =>
           LET ext == get_extension(url) IN ~(ext # "" /\ ext \in blacklist))

\* ------------------------------------------------------------ environment
\* The pages of the web that is crawled: the hrefs of each page's anchors, in
\* document order, as soup.find_all('a', href=True) yields them.
SiteA == "a.com"

SiteB == "b.org"

PageS == Http(SiteA, <<>>)

PageA == Http(SiteA, <<Seg("a", "")>>)

PageB == Http(SiteA, <<Seg("b", "")>>)

PageC == Http(SiteA, <<Seg("c", "")>>)

PageP == Http(SiteA, <<Seg("p", "")>>)

PageT == Http(SiteA, <<Seg("t", "")>>)

PagePic == Http(SiteA, <<Seg("pic", ".JPG")>>)

PageX == Http(SiteB, <<Seg("x", "")>>)

Mailto == Url("mailto", "", FALSE, <<Seg("x@a", ".com")>>, "")

Javascript == Url("javascript", "", FALSE, <<Seg("void(0)", "")>>, "")

Links(url) ==
    CASE url = PageS -> << Ref(TRUE, <<Seg("a", "")>>), Ref(TRUE, <<Seg("b", "")>>), Mailto >>
      [] url = PageA -> << Ref(FALSE, <<Seg("p", "")>>), Url("", "", FALSE, <<>>, "top"),
                           Ref(TRUE, <<Seg("pic", ".JPG")>>) >>
      [] url = PageB -> << Ref(TRUE, <<Seg("c", "")>>), Url("", SiteB, TRUE, <<Seg("x", "")>>, "") >>
      [] url = PageC -> << Ref(TRUE, <<Seg("p", "")>>), PageP >>
      [] url = PageP -> << Ref(TRUE, <<Seg("t", "")>>), Javascript, PageS >>
      [] url = PageT -> << Ref(TRUE, <<Seg("a", "")>>) >>
      [] OTHER -> << >>

\* What the transport and the parser may do with a GET of url:
\*   html           2xx, text/html, parsed
\*   other          2xx, not text/html
\*   http_error     4xx/5xx: raise_for_status raises HTTPStatusError
\*   request_error  client.get raises httpx.RequestError
\*   parse_error    2xx, text/html, BeautifulSoup raises
\*   fetch_fault    client.get raises an exception that is not an
\*                  httpx.RequestError (httpx.InvalidURL)
Outcomes == {"html", "other", "http_error", "request_error", "parse_error", "fetch_fault"}

Responses(url) ==
    CASE url = PageS -> {"html", "request_error", "http_error"}
      [] url = PageA -> {"html", "http_error", "parse_error"}
      [] url = PageB -> {"html", "parse_error", "other", "fetch_fault"}
      [] url = PageC -> {"html", "other", "request_error"}
      [] url = PageP -> {"html", "request_error"}
      [] url = PageT -> {"html", "http_error"}
      [] OTHER -> {"html", "other"}

StatusOf(outcome) == IF outcome = "http_error" THEN 404 ELSE 200

StatusCodes == {200, 404}

Netlocs == {SiteA, SiteB}

\* the start_url arguments tried
StartUrls ==
    { PageS,
      [PageS EXCEPT !.frag = "top"],
      Ref(FALSE, <<Seg("invalid-url", "")>>),
      Mailto,
      Url("ftp", SiteA, TRUE, <<Seg("a", "")>>, ""),
      PageX,
      PagePic }

Args ==
    [ start_url : StartUrls,
      max_depth : -1 .. MaxDepthArg,
      allowed_domains : {{}, {SiteA}},
      blacklist_extensions : {{}, {".jpg"}},
      concurrency : 0 .. MaxConcurrency ]

\* ------------------------------------------------------------------ state
VARIABLES
    args,                  \* the constructor's arguments
    phase,                 \* where the coordinator (constructor, then crawl()) is
    start_url, max_depth, allowed_domains, blacklist_extensions, concurrency,
    queue,                 \* self._queue: the (url, depth) items not yet taken
    unfinished_tasks,      \* asyncio.Queue's count of items put and not yet task_done
    visited_urls,          \* self._visited_urls
    results,               \* self._results
    stats,                 \* self._stats
    semaphore,             \* the value of self._semaphore
    workers,               \* worker_tasks: per worker its pc, item and cancel request
    gets,                  \* how many times client.get was called with each URL
    report,                \* what crawl() returned
    util                   \* the last direct call of a helper of utils.py

vars == << args, phase, start_url, max_depth, allowed_domains, blacklist_extensions,
           concurrency, queue, unfinished_tasks, visited_urls, results, stats,
           semaphore, workers, gets, report, util >>

config == << args, start_url, max_depth, allowed_domains, blacklist_extensions, concurrency >>

\* CrawlStats()
NewStats ==
    [ total_urls_processed |-> 0,
      total_errors_request |-> 0,
      total_errors_processing |-> 0,
      status_code_counts |-> [c \in StatusCodes |-> 0],
      domain_counts |-> [d \in Netlocs |-> 0] ]

NoReport == [made |-> FALSE, results |-> <<>>, stats |-> NewStats]

NoCall == [fn |-> "none", arg |-> <<>>, out |-> <<>>]

Init ==
    /\ args \in Args
    /\ phase = "new"
    /\ start_url = NoneUrl
    /\ max_depth = 0
    /\ allowed_domains = {}
    /\ blacklist_extensions = {}
    /\ concurrency = 0
    /\ queue = <<>>
    /\ unfinished_tasks = 0
    /\ visited_urls = {}
    /\ results = <<>>
    /\ stats = NewStats
    /\ semaphore = 0
    /\ workers = <<>>
    /\ gets = [u \in {} |-> 0]
    /\ report = NoReport
    /\ util = NoCall

\* ---------------------------------------------------------- Crawler.__init__
\* a mutant of EffectiveConcurrency: one more than asked for
EffectiveConcurrency_plus_one(c) == c + 1

\* self.concurrency = max(1, concurrency)
EffectiveConcurrency(c) == IF c < 1 THEN 1 ELSE c

\* if max_depth < 0: raise ValueError
DepthRejected(depth) == depth < 0

\* Crawler(start_url, max_depth, allowed_domains, blacklist_extensions, concurrency)
Construct ==
    /\ phase = "new"
    /\ LET normalized == normalize_url(args.start_url, args.start_url)
       IN  IF normalized = NoneUrl \/ DepthRejected(args.max_depth)
           THEN /\ phase' = "ValueError"
                /\ UNCHANGED << start_url, max_depth, allowed_domains, blacklist_extensions,
                                concurrency, semaphore >>
           ELSE /\ phase' = "idle"
                /\ start_url' = normalized
                /\ max_depth' = args.max_depth
                /\ allowed_domains' = args.allowed_domains
                /\ blacklist_extensions' = args.blacklist_extensions
                /\ concurrency' = EffectiveConcurrency(args.concurrency)
                /\ semaphore' = concurrency'
    /\ UNCHANGED << args, util, queue, unfinished_tasks, visited_urls, results, stats, workers,
                    gets, report >>

\* ------------------------------------------------------------ Crawler.crawl
\* a mutant of StartInScope: the start URL is not validated
StartInScope_unchecked == TRUE

\* is_valid_url(self.start_url, self.allowed_domains, self.blacklist_extensions)
StartInScope == is_valid_url(start_url, allowed_domains, blacklist_extensions)

Task(url, depth) == [url |-> url, depth |-> depth]

NoTask == Task(NoneUrl, 0)

Worker(pc, task, cancel) == [pc |-> pc, task |-> task, cancel |-> cancel]

\* crawl() with a start URL that is_valid_url rejects: the early return
crawl_out_of_scope ==
    /\ phase = "idle"
    /\ ~StartInScope
    /\ phase' = "reported"
    /\ report' = [made |-> TRUE, results |-> <<>>, stats |-> stats]
    /\ UNCHANGED << config, util, queue, unfinished_tasks, visited_urls, results, stats,
                    semaphore, workers, gets >>

\* crawl() from its start to `await self._queue.join()`: the seed is put and
\* one worker task per unit of concurrency is created
crawl_seed ==
    /\ phase = "idle"
    /\ StartInScope
    /\ queue' = Append(queue, Task(start_url, 0))
    /\ unfinished_tasks' = unfinished_tasks + 1
    /\ workers' = [i \in 1 .. concurrency |-> Worker("get", NoTask, FALSE)]
    /\ phase' = "joining"
    /\ UNCHANGED << config, util, visited_urls, results, stats, semaphore, gets, report >>

\* a mutant of JoinReady: the drain fires as soon as the queue is empty
JoinReady_queue_empty == queue = <<>>

\* asyncio.Queue.join() returns when every item put has been task_done
JoinReady == unfinished_tasks = 0

\* join() returns and every worker task is cancelled
crawl_join ==
    /\ phase = "joining"
    /\ JoinReady
    /\ workers' = [i \in DOMAIN workers |-> [workers[i] EXCEPT !.cancel = TRUE]]
    /\ phase' = "gathering"
    /\ UNCHANGED << config, util, queue, unfinished_tasks, visited_urls, results, stats,
                    semaphore, gets, report >>

\* gather() returns once every worker task has ended; the report is built
crawl_report ==
    /\ phase = "gathering"
    /\ \A i \in DOMAIN workers : workers[i].pc = "finished"
    /\ report' = [made |-> TRUE, results |-> results, stats |-> stats]
    /\ phase' = "reported"
    /\ UNCHANGED << config, util, queue, unfinished_tasks, visited_urls, results, stats,
                    semaphore, workers, gets >>

\* ---------------------------------------------------------- Crawler._worker
\* a mutant of AlreadyVisited: the worker does not look at the visited set
AlreadyVisited_never(url) == FALSE

\* if current_url in self._visited_urls
AlreadyVisited(url) == url \in visited_urls

\* a mutant of task_done: the count is left as it is
task_done_forgotten(n) == n

\* asyncio.Queue.task_done()
task_done(n) == n - 1

\* queue.get() returns an item; a visited URL is dropped, another is claimed
worker_get(w) ==
    /\ w \in DOMAIN workers
    /\ workers[w].pc = "get"
    /\ ~workers[w].cancel
    /\ queue # <<>>
    /\ LET item == Head(queue)
       IN  /\ queue' = Tail(queue)
           /\ IF AlreadyVisited(item.url)
              THEN /\ unfinished_tasks' = task_done(unfinished_tasks)
                   /\ UNCHANGED << visited_urls, workers >>
              ELSE /\ visited_urls' = visited_urls \cup {item.url}
                   /\ workers' = [workers EXCEPT ![w] = Worker("acquire", item, FALSE)]
                   /\ UNCHANGED unfinished_tasks
    /\ UNCHANGED << config, util, phase, results, stats, semaphore, gets, report >>

CountUp(f, k) == [f EXCEPT ![k] = @ + 1]

BagAdd(b, k) ==
    IF k \in DOMAIN b THEN [b EXCEPT ![k] = @ + 1]
    ELSE [x \in DOMAIN b \cup {k} |-> IF x = k THEN 1 ELSE b[x]]

\* a mutant of DomainCounted: the domain histogram is left for the response
DomainCounted_not_yet(counts, domain) == counts

\* if domain: self._stats.domain_counts[domain] = ... + 1
DomainCounted(counts, domain) == IF domain # "" THEN CountUp(counts, domain) ELSE counts

\* the semaphore is acquired and _process_url runs up to `await client.get(url)`
worker_acquire(w) ==
    /\ w \in DOMAIN workers
    /\ workers[w].pc = "acquire"
    /\ ~workers[w].cancel
    /\ semaphore > 0
    /\ semaphore' = semaphore - 1
    /\ LET url == workers[w].task.url
           domain == get_domain(url)
       IN  /\ stats' = [stats EXCEPT
                           !.total_urls_processed = @ + 1,
                           !.domain_counts = DomainCounted(@, domain)]
           /\ gets' = BagAdd(gets, url)
    /\ workers' = [workers EXCEPT ![w].pc = "fetch"]
    /\ UNCHANGED << config, util, phase, queue, unfinished_tasks, visited_urls, results, report >>

\* ------------------------------------------------------ Crawler._process_url
\* CrawlResult; None is 0 for status_code, -1 for content_size and "" for
\* title and error
CrawlResult(url, depth, status_code, content_size, title, error) ==
    [url |-> url, depth |-> depth, status_code |-> status_code,
     content_size |-> content_size, title |-> title, error |-> error]

\* len(response.content) of the response of each outcome; a 404 has an empty body
ContentSize(outcome) ==
    CASE outcome \in {"html", "parse_error"} -> 2
      [] outcome = "other" -> 1
      [] OTHER -> 0

\* a mutant of MayFollowLinks: the links of a page at max_depth are followed too
MayFollowLinks_at_max_depth(depth) == depth <= max_depth

\* if depth < self.max_depth
MayFollowLinks(depth) == depth < max_depth

\* a mutant of Admissible: a link is queued without asking is_valid_url
Admissible_unfiltered(normalized_url) ==
    /\ normalized_url # NoneUrl
    /\ normalized_url \notin visited_urls

\* a mutant of Admissible: a link is queued without looking at the visited set
Admissible_visited_unchecked(normalized_url) ==
    /\ normalized_url # NoneUrl
    /\ is_valid_url(normalized_url, allowed_domains, blacklist_extensions)

\* the tests a link passes before it is put on the queue
Admissible(normalized_url) ==
    /\ normalized_url # NoneUrl
    /\ normalized_url \notin visited_urls
    /\ is_valid_url(normalized_url, allowed_domains, blacklist_extensions)

\* the loop over the page's anchors: the items it puts, in order
LinkTasks(url, depth) ==
    LET hrefs == Links(url)
        normalized == [i \in 1 .. Len(hrefs) |-> normalize_url(url, hrefs[i])]
        kept == SelectSeq(normalized, Admissible)
    IN  [i \in 1 .. Len(kept) |-> Task(kept[i], depth + 1)]

\* a mutant of StatsAfter: a 4xx/5xx response is left out of the histogram
StatsAfter_http_error_uncounted(s, outcome) ==
    [s EXCEPT
        !.status_code_counts =
            IF outcome \in {"html", "other", "parse_error"}
            THEN CountUp(@, StatusOf(outcome)) ELSE @,
        !.total_errors_request =
            IF outcome = "request_error" THEN @ + 1 ELSE @,
        !.total_errors_processing =
            IF outcome \in {"parse_error", "fetch_fault"} THEN @ + 1 ELSE @]

\* a mutant of StatsAfter: a request error is not counted
StatsAfter_request_error_uncounted(s, outcome) ==
    [s EXCEPT
        !.status_code_counts =
            IF outcome \notin {"request_error", "fetch_fault"}
            THEN CountUp(@, StatusOf(outcome)) ELSE @,
        !.total_errors_processing =
            IF outcome \in {"parse_error", "fetch_fault"} THEN @ + 1 ELSE @]

\* the counters _process_url moves once client.get has returned or raised:
\* the histogram when there is a response, one error counter in an except clause
StatsAfter(s, outcome) ==
    [s EXCEPT
        !.status_code_counts =
            IF outcome \notin {"request_error", "fetch_fault"}
            THEN CountUp(@, StatusOf(outcome)) ELSE @,
        !.total_errors_request =
            IF outcome = "request_error" THEN @ + 1 ELSE @,
        !.total_errors_processing =
            IF outcome \in {"parse_error", "fetch_fault"} THEN @ + 1 ELSE @]

\* a mutant of ResultOf: a request error is recorded with a status code
ResultOf_request_error_with_status(url, depth, outcome) ==
    CASE outcome = "html" -> CrawlResult(url, depth, 200, ContentSize(outcome), "title", "")
      [] outcome = "other" -> CrawlResult(url, depth, 200, ContentSize(outcome), "", "")
      [] outcome = "http_error" -> CrawlResult(url, depth, 404, ContentSize(outcome), "", "HTTP Status 404")
      [] outcome = "request_error" -> CrawlResult(url, depth, 200, ContentSize(outcome), "", "Request Error")
      [] outcome = "parse_error" -> CrawlResult(url, depth, 200, ContentSize(outcome), "", "Processing Error")
      [] outcome = "fetch_fault" -> CrawlResult(url, depth, 0, -1, "", "Processing Error")

\* what _process_url leaves in the result for each outcome of the GET
ResultOf(url, depth, outcome) ==
    CASE outcome = "html" -> CrawlResult(url, depth, 200, ContentSize(outcome), "title", "")
      [] outcome = "other" -> CrawlResult(url, depth, 200, ContentSize(outcome), "", "")
      [] outcome = "http_error" -> CrawlResult(url, depth, 404, ContentSize(outcome), "", "HTTP Status 404")
      [] outcome = "request_error" -> CrawlResult(url, depth, 0, -1, "", "Request Error")
      [] outcome = "parse_error" -> CrawlResult(url, depth, 200, ContentSize(outcome), "", "Processing Error")
      [] outcome = "fetch_fault" -> CrawlResult(url, depth, 0, -1, "", "Processing Error")

\* finally: self._results.append(result)
Recorded(rs, result) == Append(rs, result)

\* a mutant of AfterItem: a worker whose request failed leaves its loop
AfterItem_stops_on_request_error(outcome) ==
    IF outcome = "request_error" THEN "finished" ELSE "get"

\* where the worker goes after task_done: back to `while True`
AfterItem(outcome) == "get"

\* a mutant of Enqueued: the new items go to the front of the queue
Enqueued_in_front(q, put) == put \o q

\* await self._queue.put(...) on an asyncio.Queue: first in, first out
Enqueued(q, put) == q \o put

\* client.get returns or raises; the rest of _process_url runs, the semaphore
\* is released and the item is marked done
process_url(w, outcome) ==
    /\ w \in DOMAIN workers
    /\ workers[w].pc = "fetch"
    /\ ~workers[w].cancel
    /\ outcome \in Responses(workers[w].task.url)
    /\ LET url == workers[w].task.url
           depth == workers[w].task.depth
           put == IF outcome = "html" /\ MayFollowLinks(depth)
                  THEN LinkTasks(url, depth) ELSE <<>>
       IN  /\ stats' = StatsAfter(stats, outcome)
           /\ queue' = Enqueued(queue, put)
           /\ unfinished_tasks' = task_done(unfinished_tasks + Len(put))
           /\ results' = Recorded(results, ResultOf(url, depth, outcome))
    /\ semaphore' = semaphore + 1
    /\ workers' = [workers EXCEPT ![w] = Worker(AfterItem(outcome), NoTask, FALSE)]
    /\ UNCHANGED << config, util, phase, visited_urls, gets, report >>

\* task.cancel(): CancelledError is raised at the worker's await and the loop
\* is left; inside client.get the finally clause still appends the result and
\* `async with` releases the semaphore
worker_cancelled(w) ==
    /\ w \in DOMAIN workers
    /\ workers[w].cancel
    /\ workers[w].pc # "finished"
    /\ IF workers[w].pc = "fetch"
       THEN /\ results' = Recorded(results, CrawlResult(workers[w].task.url,
                                                        workers[w].task.depth, 0, -1, "", ""))
            /\ semaphore' = semaphore + 1
       ELSE UNCHANGED << results, semaphore >>
    /\ workers' = [workers EXCEPT ![w].pc = "finished"]
    /\ UNCHANGED << config, util, phase, queue, unfinished_tasks, visited_urls, stats, gets,
                    report >>

\* ------------------------------------------------------------ specification
Next ==
    \/ Construct
    \/ crawl_out_of_scope
    \/ crawl_seed
    \/ crawl_join
    \/ crawl_report
    \/ \E w \in 1 .. MaxConcurrency + 1 : worker_get(w)
    \/ \E w \in 1 .. MaxConcurrency + 1 : worker_acquire(w)
    \/ \E w \in 1 .. MaxConcurrency + 1 : \E outcome \in Outcomes : process_url(w, outcome)
    \/ \E w \in 1 .. MaxConcurrency + 1 : worker_cancelled(w)

Spec == Init /\ [][Next]_vars

\* The event loop runs every task that can run, and every request returns or
\* raises: each step that stays enabled is eventually taken.
\* the crawls that are restricted to one domain
FairInit ==
    /\ Init
    /\ args.allowed_domains = {SiteA}

FairSpec ==
    /\ FairInit
    /\ [][Next]_vars
    /\ WF_vars(Construct)
    /\ WF_vars(crawl_out_of_scope)
    /\ WF_vars(crawl_seed)
    /\ WF_vars(crawl_join)
    /\ WF_vars(crawl_report)
    /\ \A w \in 1 .. MaxConcurrency + 1 :
          /\ WF_vars(worker_get(w))
          /\ WF_vars(worker_acquire(w))
          /\ WF_vars(\E outcome \in Outcomes : process_url(w, outcome))
          /\ WF_vars(worker_cancelled(w))

\* ------------------------------- Crawler._worker, `except Exception` clause
\* An exception that is not a CancelledError escapes the body of the loop. The
\* body raises none by itself, and _process_url catches what the request and
\* the parse raise, so the clause is reached only by a fault of the interpreter
\* (a MemoryError, say) in a statement outside the try block of _process_url.

\* a mutant of AfterFault: the worker leaves its loop
AfterFault_breaks == "finished"

\* the except clause has no break: the worker is back at `while True`
AfterFault == "get"

\* self._stats.total_errors_processing += 1
FaultCounted(s) == [s EXCEPT !.total_errors_processing = @ + 1]

\* try: self._queue.task_done() except ValueError: pass
task_done_guarded(n) == IF n <= 0 THEN n ELSE task_done(n)

\* the fault comes after queue.get() has returned the item and before the
\* visited check (the statement at line 79)
worker_fault_get(w) ==
    /\ w \in DOMAIN workers
    /\ workers[w].pc = "get"
    /\ ~workers[w].cancel
    /\ queue # <<>>
    /\ queue' = Tail(queue)
    /\ stats' = FaultCounted(stats)
    /\ unfinished_tasks' = task_done_guarded(unfinished_tasks)
    /\ workers' = [workers EXCEPT ![w] = Worker(AfterFault, NoTask, FALSE)]
    /\ UNCHANGED << config, util, phase, visited_urls, results, semaphore, gets, report >>

\* the fault comes inside `async with self._semaphore`, in _process_url before
\* its try block (building the CrawlResult at line 117): the URL is counted as
\* processed, no request is made and no result is appended; the semaphore is
\* acquired and released
worker_fault_process(w) ==
    /\ w \in DOMAIN workers
    /\ workers[w].pc = "acquire"
    /\ ~workers[w].cancel
    /\ semaphore > 0
    /\ stats' = FaultCounted([stats EXCEPT
                    !.total_urls_processed = @ + 1,
                    !.domain_counts = DomainCounted(@, get_domain(workers[w].task.url))])
    /\ unfinished_tasks' = task_done_guarded(unfinished_tasks)
    /\ workers' = [workers EXCEPT ![w] = Worker(AfterFault, NoTask, FALSE)]
    /\ UNCHANGED << config, util, phase, queue, visited_urls, results, semaphore, gets,
                    report >>

\* the crawls of one domain with an empty blacklist
FaultInit ==
    /\ Init
    /\ args.allowed_domains = {SiteA}
    /\ args.blacklist_extensions = {}

FaultNext ==
    \/ Next
    \/ \E w \in 1 .. MaxConcurrency + 1 : worker_fault_get(w)
    \/ \E w \in 1 .. MaxConcurrency + 1 : worker_fault_process(w)

FaultSpec == FaultInit /\ [][FaultNext]_vars

\* ------------------------------------------------- utils.py, called directly
\* Python's None where the model tells it from ''
None == "None"

\* the url arguments tried
UtilUrls ==
    { PageS, PageA, PagePic, PageX, Mailto, NoneUrl,
      Ref(FALSE, <<Seg("invalid-url", "")>>),
      Url("https", SiteA, TRUE, <<Seg("doc", ".PDF")>>, ""),
      Url("http", SiteA, TRUE, <<Seg("archive.tar", ".gz")>>, ""),
      Url("http", SiteA, TRUE, <<Seg("path", ""), Seg(".config", "")>>, ""),
      Url("http", SiteA, TRUE, <<Seg("pic", ".jpg")>>, "frag"),
      Url("http", "a.com:8080", TRUE, <<Seg("page", "")>>, ""),
      Url("http", "", TRUE, <<Seg("x", "")>>, ""),
      Url("ftp", "ftp.a.com", FALSE, <<>>, "") }

\* the allowed_domains and blacklist_extensions arguments tried; {} is also None
UtilDomains == SUBSET {SiteA, SiteB, "a.com:8080"}

UtilBlacklists == SUBSET {".jpg", ".pdf", ".gz"}

Call(fn, arg, out) == [fn |-> fn, arg |-> arg, out |-> out]

\* is_valid_url(url, allowed_domains, blacklist_extensions)
call_is_valid_url(url, allowed, blacklist) ==
    /\ util' = Call("is_valid_url",
                    [url |-> url, allowed |-> allowed, blacklist |-> blacklist],
                    is_valid_url(url, allowed, blacklist))
    /\ UNCHANGED << config, phase, queue, unfinished_tasks, visited_urls, results, stats,
                    semaphore, workers, gets, report >>

\* get_domain(url)
call_get_domain(url) ==
    /\ util' = Call("get_domain", url, get_domain(url))
    /\ UNCHANGED << config, phase, queue, unfinished_tasks, visited_urls, results, stats,
                    semaphore, workers, gets, report >>

\* the input_value arguments tried: the pieces between the commas of the string
\* (items) and what the file system says of the string taken as a path
BlacklistInput(given, items, sep, exists, isfile, readable, content) ==
    [given |-> given, items |-> items, sep |-> sep, exists |-> exists, isfile |-> isfile,
     readable |-> readable, content |-> content]

BlacklistInputs ==
    { BlacklistInput(FALSE, <<>>, FALSE, FALSE, FALSE, FALSE, <<>>),
      BlacklistInput(TRUE, <<".jpg", " PNG ", "pdf">>, FALSE, FALSE, FALSE, FALSE, <<>>),
      BlacklistInput(TRUE, <<" ", "">>, FALSE, FALSE, FALSE, FALSE, <<>>),
      BlacklistInput(TRUE, <<"./nonexistent/file.txt">>, TRUE, FALSE, FALSE, FALSE, <<>>),
      BlacklistInput(TRUE, <<"/tmp">>, TRUE, TRUE, FALSE, FALSE, <<>>),
      BlacklistInput(TRUE, <<"bl.txt">>, FALSE, TRUE, TRUE, TRUE, <<".jpg", ".JPG", " ", "pdf">>),
      BlacklistInput(TRUE, <<"/root/bl.txt">>, TRUE, TRUE, TRUE, FALSE, <<".jpg">>) }

\* str.strip() on the items used
Strip(item) ==
    CASE item = " PNG " -> "PNG"
      [] item = " " -> ""
      [] OTHER -> item

\* if not clean_ext.startswith('.'): clean_ext = '.' + clean_ext
WithDot(ext) ==
    CASE ext = "png" -> ".png"
      [] ext = "pdf" -> ".pdf"
      [] ext = "/tmp" -> "./tmp"
      [] ext = "bl.txt" -> ".bl.txt"
      [] OTHER -> ext

\* the list returned for the raw items: sorted(list(set)) is given as the set
Extensions(raw) ==
    LET stripped == SelectSeq([i \in 1 .. Len(raw) |-> Strip(raw[i])], LAMBDA x : x # "")
    IN  [kind |-> "list", exts |-> {WithDot(Lower(stripped[i])) : i \in 1 .. Len(stripped)}]

\* process_blacklist_input(input_value)
process_blacklist_input(input) ==
    IF ~input.given THEN [kind |-> None, exts |-> {}]
    ELSE IF input.exists /\ input.isfile
         THEN IF input.readable THEN Extensions(input.content)
              ELSE [kind |-> "IOError", exts |-> {}]
         ELSE Extensions(input.items)

call_process_blacklist_input(input) ==
    /\ util' = Call("process_blacklist_input", input, process_blacklist_input(input))
    /\ UNCHANGED << config, phase, queue, unfinished_tasks, visited_urls, results, stats,
                    semaphore, workers, gets, report >>

UtilInit ==
    /\ Init
    /\ args = [start_url |-> PageS, max_depth |-> 0, allowed_domains |-> {},
               blacklist_extensions |-> {}, concurrency |-> 1]

UtilNext ==
    \/ \E url \in UtilUrls : \E allowed \in UtilDomains : \E blacklist \in UtilBlacklists :
          call_is_valid_url(url, allowed, blacklist)
    \/ \E url \in UtilUrls : call_get_domain(url)
    \/ \E input \in BlacklistInputs : call_process_blacklist_input(input)

UtilSpec == UtilInit /\ [][UtilNext]_vars

\* ------------------------------------------------------------------ claims
ResultUrls == {results[i].url : i \in DOMAIN results}

InFlight == {w \in DOMAIN workers : workers[w].pc = "fetch"}

Constructed == phase \notin {"new", "ValueError"}

\* C1: each URL is processed at most once: client.get is called at most once
\* with each URL and no two results carry the same url.
C1_ProcessedAtMostOnce ==
    /\ \A u \in DOMAIN gets : gets[u] <= 1
    /\ \A i, j \in DOMAIN results : results[i].url = results[j].url => i = j

\* a URL that has been fetched still has a copy waiting on the queue
C1_Witness ==
    /\ Cardinality(DOMAIN workers) >= 2
    /\ \E i \in DOMAIN queue : queue[i].url \in DOMAIN gets

\* C2: every task on the queue and every result has 0 <= depth <= max_depth,
\* and depth 0 belongs to the start URL alone.
C2_DepthBounded ==
    /\ \A i \in DOMAIN queue :
          /\ 0 <= queue[i].depth /\ queue[i].depth <= max_depth
          /\ queue[i].depth = 0 => queue[i].url = start_url
    /\ \A i \in DOMAIN results :
          /\ 0 <= results[i].depth /\ results[i].depth <= max_depth
          /\ results[i].depth = 0 => results[i].url = start_url

\* a page at max_depth that has links was fetched as HTML while the queue holds items
C2_Witness ==
    /\ max_depth >= 2
    /\ queue # <<>>
    /\ \E i \in DOMAIN results :
          /\ results[i].depth = max_depth
          /\ results[i].title # ""
          /\ Links(results[i].url) # <<>>

FetchedAsHtml(url) == \E i \in DOMAIN results : results[i].url = url /\ results[i].title # ""

\* the in-scope targets of the anchors of the pages of `pages` fetched as HTML
LinkedFrom(pages) ==
    UNION { { n \in { normalize_url(p, Links(p)[i]) : i \in DOMAIN Links(p) } :
                /\ n # NoneUrl
                /\ is_valid_url(n, allowed_domains, blacklist_extensions) } :
            p \in { q \in pages : FetchedAsHtml(q) } }

RECURSIVE ReachableWithin(_)
\* the in-scope URLs at most k links from the start URL along pages fetched as HTML
ReachableWithin(k) ==
    IF k = 0
    THEN IF is_valid_url(start_url, allowed_domains, blacklist_extensions)
         THEN {start_url} ELSE {}
    ELSE LET nearer == ReachableWithin(k - 1) IN nearer \cup LinkedFrom(nearer)

\* C3: when crawl() has returned, every in-scope URL within max_depth links of
\* the start URL, along pages fetched as HTML, has a result in the report.
C3_NoPageMissed ==
    (phase = "reported" /\ report.made) =>
        ReachableWithin(max_depth) \subseteq {report.results[i].url : i \in DOMAIN report.results}

\* C4: a crawl whose start URL is in scope ends: the queue drains, every worker
\* is cancelled and ends, and the report is returned.
C4_CrawlTerminates ==
    (phase = "joining") ~>
        (/\ phase = "reported"
         /\ report.made
         /\ unfinished_tasks = 0
         /\ \A w \in DOMAIN workers : workers[w].pc = "finished")

\* the report of a crawl that followed links, with every worker ended
C4_Witness ==
    /\ phase = "reported"
    /\ Len(report.results) >= 4
    /\ Cardinality(DOMAIN workers) >= 2
    /\ \A w \in DOMAIN workers : workers[w].pc = "finished"

\* C5: the step in which join() returns starts from a state with an empty
\* queue and no worker between taking an item and marking it done.
C5_DrainOnlyWhenIdle ==
    [][ (phase = "joining" /\ phase' = "gathering") =>
            /\ queue = <<>>
            /\ \A w \in DOMAIN workers : workers[w].pc = "get" ]_vars

\* join() has returned after a crawl in which workers put discovered links
C5_Witness ==
    /\ phase = "gathering"
    /\ \E i \in DOMAIN results : results[i].depth >= 2

\* C6: at most max(1, concurrency) fetches are in flight, and a worker in
\* flight holds exactly one slot of the semaphore.
C6_InFlightBounded ==
    Constructed =>
        /\ Cardinality(InFlight) <= (IF args.concurrency < 1 THEN 1 ELSE args.concurrency)
        /\ semaphore >= 0
        /\ semaphore + Cardinality(InFlight) = concurrency

\* as many fetches in flight as the concurrency asked for, more than one
C6_Witness ==
    /\ args.concurrency >= 2
    /\ Cardinality(InFlight) = args.concurrency

\* C7: with a start URL out of scope crawl() returns an empty report with zero
\* statistics, raises nothing, puts nothing, starts no worker and sends no request.
C7_OutOfScopeStart ==
    (Constructed /\ ~is_valid_url(start_url, allowed_domains, blacklist_extensions)) =>
        /\ phase \in {"idle", "reported"}
        /\ queue = <<>> /\ unfinished_tasks = 0
        /\ workers = <<>>
        /\ DOMAIN gets = {}
        /\ results = <<>> /\ stats = NewStats
        /\ phase = "reported" => report = [made |-> TRUE, results |-> <<>>, stats |-> NewStats]

\* crawl() has returned for a start URL with a blacklisted extension
C7_Witness ==
    /\ phase = "reported"
    /\ report.made
    /\ get_extension(start_url) \in blacklist_extensions

\* C8: the constructor raises ValueError exactly when the start URL joined with
\* itself lacks a scheme or a host, or max_depth < 0; nothing has happened then.
C8_ConstructorRejects ==
    phase # "new" =>
        LET joined == urljoin(args.start_url, args.start_url)
            bad == joined.scheme = "" \/ joined.netloc = "" \/ args.max_depth < 0
        IN  /\ (phase = "ValueError") <=> bad
            /\ phase = "ValueError" =>
                  /\ queue = <<>> /\ unfinished_tasks = 0
                  /\ workers = <<>>
                  /\ DOMAIN gets = {}
                  /\ start_url = NoneUrl

\* the constructor has raised for a mailto: start URL and a non-negative depth
C8_Witness ==
    /\ phase = "ValueError"
    /\ args.start_url = Mailto
    /\ args.max_depth >= 0

\* a step in which a fetch ends in a transport error, a 4xx/5xx status or a
\* processing error
FailureStep ==
    \/ stats'.total_errors_request > stats.total_errors_request
    \/ stats'.total_errors_processing > stats.total_errors_processing
    \/ stats'.status_code_counts[404] > stats.status_code_counts[404]

\* C9: a failed fetch records exactly one result for its URL, marks the item
\* done, leaves the worker in its loop, and the URL is never requested again.
C9_FailureIsContained ==
    [][ /\ \A w \in DOMAIN workers :
            (workers[w].pc = "fetch" /\ workers'[w].pc # "fetch" /\ FailureStep) =>
                /\ Len(results') = Len(results) + 1
                /\ results'[Len(results')].url = workers[w].task.url
                /\ results'[Len(results')].error # ""
                /\ Cardinality({i \in DOMAIN results' :
                                   results'[i].url = workers[w].task.url}) = 1
                /\ unfinished_tasks' = unfinished_tasks - 1
                /\ queue' = queue
                /\ workers'[w].pc = "get" /\ ~workers'[w].cancel
                /\ phase' = "joining"
        /\ \A i \in DOMAIN results :
            results[i].error # "" => gets'[results[i].url] = 1 ]_vars

\* the only worker is fetching again after one of its fetches failed
C9_Witness ==
    /\ Cardinality(DOMAIN workers) = 1
    /\ workers[1].pc = "fetch"
    /\ \E i \in DOMAIN results : results[i].error # ""

\* C10: every URL on the queue and every result url normalized to a scheme and
\* a host and is in scope for the configured filter sets.
C10_OnlyInScope ==
    /\ \A i \in DOMAIN queue :
          /\ queue[i].url.scheme # "" /\ queue[i].url.netloc # ""
          /\ is_valid_url(queue[i].url, allowed_domains, blacklist_extensions)
    /\ \A i \in DOMAIN results :
          /\ results[i].url.scheme # "" /\ results[i].url.netloc # ""
          /\ is_valid_url(results[i].url, allowed_domains, blacklist_extensions)

\* with both filters set, the pages with mailto:, javascript:, off-domain and
\* blacklisted links have been fetched as HTML and their links followed
C10_Witness ==
    /\ allowed_domains = {SiteA}
    /\ blacklist_extensions = {".jpg"}
    /\ \A p \in {PageS, PageA, PageB, PageP} :
          \E i \in DOMAIN results :
              /\ results[i].url = p
              /\ results[i].title # ""
              /\ results[i].depth < max_depth


\* C11: a page processed at max_depth is fetched and recorded and puts nothing;
\* with max_depth = 0 the seed is the only put and the report holds exactly
\* one result, for the start URL at depth 0.
C11_NoLinksAtMaxDepth ==
    [][ /\ \A w \in DOMAIN workers :
            (/\ workers[w].pc = "fetch" /\ workers'[w].pc = "get"
             /\ workers[w].task.depth = max_depth) =>
                /\ queue' = queue
                /\ gets[workers[w].task.url] = 1
                /\ Len(results') = Len(results) + 1
                /\ results'[Len(results')].url = workers[w].task.url
                /\ results'[Len(results')].depth = max_depth
        /\ (max_depth' = 0 /\ Len(queue') > Len(queue)) =>
                /\ phase = "idle"
                /\ queue' = <<Task(start_url, 0)>>
        /\ (/\ max_depth' = 0 /\ phase' = "reported"
            /\ is_valid_url(start_url, allowed_domains, blacklist_extensions)) =>
                /\ Len(report'.results) = 1
                /\ report'.results[1].url = start_url
                /\ report'.results[1].depth = 0 ]_vars

\* the report of a crawl with max_depth = 0 whose start page, which has
\* anchors, was fetched as HTML
C11_Witness ==
    /\ phase = "reported"
    /\ args.max_depth = 0
    /\ Len(report.results) = 1
    /\ report.results[1].url = PageS
    /\ report.results[1].title # ""
    /\ Links(PageS) # <<>>


\* C12: is_valid_url is true exactly when the scheme is http or https, and the
\* allowed domains are none/empty or hold the URL's host[:port], and the
\* blacklist is none/empty or the lowercase last extension is absent or not in it.
C12_InScopeExactly ==
    util.fn = "is_valid_url" =>
        LET url == util.arg.url
            ext == IF url.segs = <<>> THEN "" ELSE Lower(url.segs[Len(url.segs)].ext)
        IN  util.out <=>
                /\ url.scheme = "http" \/ url.scheme = "https"
                /\ util.arg.allowed = {} \/ url.netloc \in util.arg.allowed
                /\ util.arg.blacklist = {} \/ ext = "" \/ ext \notin util.arg.blacklist

\* an http URL of an allowed domain is rejected for its upper-case extension alone
C12_Witness ==
    /\ util.fn = "is_valid_url"
    /\ ~util.out
    /\ util.arg.url = PagePic
    /\ util.arg.allowed = {SiteA, SiteB}
    /\ util.arg.blacklist = {".jpg", ".gz"}

\* C13: a URL accepted under allowed domains D' and blacklist B' is accepted
\* under every D \subseteq D' and B \subseteq B', the empty sets included.
C13_Monotonic ==
    (util.fn = "is_valid_url" /\ util.out) =>
        \A allowed \in SUBSET util.arg.allowed : \A blacklist \in SUBSET util.arg.blacklist :
            is_valid_url(util.arg.url, allowed, blacklist)

\* a URL with an extension is accepted under two allowed domains and two
\* blacklisted extensions
C13_Witness ==
    /\ util.fn = "is_valid_url"
    /\ util.out
    /\ get_extension(util.arg.url) = ".pdf"
    /\ util.arg.allowed = {SiteA, SiteB}
    /\ util.arg.blacklist = {".jpg", ".gz"}


\* C13 as amended: a URL accepted under allowed domains D' and blacklist B' is
\* accepted under D' and every B \subseteq B', and under no domain restriction
\* at all; among non-empty allowed-domain sets it is adding a domain, not
\* removing one, that keeps an accepted URL accepted.
C13_MonotonicInBlacklist ==
    (util.fn = "is_valid_url" /\ util.out) =>
        /\ \A blacklist \in SUBSET util.arg.blacklist :
              /\ is_valid_url(util.arg.url, util.arg.allowed, blacklist)
              /\ is_valid_url(util.arg.url, {}, blacklist)
        /\ util.arg.allowed # {} =>
              \A allowed \in UtilDomains :
                  util.arg.allowed \subseteq allowed =>
                      is_valid_url(util.arg.url, allowed, util.arg.blacklist)


\* ---------------------------------------------------------------- C14
TransportOrProcessing == {"Request Error", "Processing Error"}

\* C14 as stated: every result has exactly one of a request/processing error
\* and a status code, never both and never neither.
C14_ExactlyOne ==
    \A i \in 1 .. Len(results) :
        (results[i].error \in TransportOrProcessing) # (results[i].status_code # 0)

\* C14 as amended: every result has a status code or a request/processing
\* error, never neither; a request error never comes with a status code, and
\* an error raised while the response is processed keeps the status code.
C14_StatusOrError ==
    \A i \in 1 .. Len(results) :
        /\ results[i].status_code # 0 \/ results[i].error \in TransportOrProcessing
        /\ results[i].error = "Request Error" => results[i].status_code = 0

C14_Witness ==
    /\ \E i \in 1 .. Len(results) :
          results[i].error = "Processing Error" /\ results[i].status_code = 200
    /\ \E i \in 1 .. Len(results) :
          results[i].error = "Request Error" /\ results[i].status_code = 0

\* ---------------------------------------------------------------- C15, C16
RECURSIVE SumOf(_, _)
SumOf(f, S) ==
    IF S = {} THEN 0
    ELSE LET k == CHOOSE x \in S : TRUE IN f[k] + SumOf(f, S \ {k})

HistogramSum(s) == SumOf(s.status_code_counts, DOMAIN s.status_code_counts)

WithStatus(rs) == {i \in 1 .. Len(rs) : rs[i].status_code # 0}

\* results of a processing error that came before any response
StatuslessFaults(rs) ==
    {i \in 1 .. Len(rs) : rs[i].status_code = 0 /\ rs[i].error = "Processing Error"}

\* C15 as stated: in the report the status histogram sums to the number of
\* results with a status code, and to the URLs processed less the request errors.
C15_HistogramSum ==
    report.made =>
        /\ HistogramSum(report.stats) = Cardinality(WithStatus(report.results))
        /\ HistogramSum(report.stats) =
              report.stats.total_urls_processed - report.stats.total_errors_request

\* C15 as amended: in the report the status histogram sums to the number of
\* results with a status code, and to the URLs processed less the request
\* errors and less the processing errors that came before any response.
C15_HistogramSumLessFaults ==
    report.made =>
        /\ HistogramSum(report.stats) = Cardinality(WithStatus(report.results))
        /\ HistogramSum(report.stats) =
              report.stats.total_urls_processed - report.stats.total_errors_request
                  - Cardinality(StatuslessFaults(report.results))

C15_Witness ==
    /\ report.made
    /\ report.stats.status_code_counts[404] > 0
    /\ StatuslessFaults(report.results) # {}
    /\ HistogramSum(report.stats) < report.stats.total_urls_processed

\* C16 as stated: the status histogram's sum plus the request errors is at
\* least the URLs processed, and equal to it when no processing error came
\* before a response.
C16_SumAtLeastProcessed ==
    report.made =>
        /\ HistogramSum(report.stats) + report.stats.total_errors_request
              >= report.stats.total_urls_processed
        /\ StatuslessFaults(report.results) = {} =>
              HistogramSum(report.stats) + report.stats.total_errors_request
                  = report.stats.total_urls_processed

\* C16 as amended: the status histogram's sum plus the request errors is at
\* most the URLs processed, at every moment of a run; in the report the two are
\* equal exactly when no processing error came before a response.
C16_SumAtMostProcessed ==
    /\ HistogramSum(stats) + stats.total_errors_request <= stats.total_urls_processed
    /\ report.made =>
          /\ HistogramSum(report.stats) + report.stats.total_errors_request
                <= report.stats.total_urls_processed
          /\ (StatuslessFaults(report.results) = {}) <=>
                (HistogramSum(report.stats) + report.stats.total_errors_request
                    = report.stats.total_urls_processed)

C16_Witness ==
    /\ report.made
    /\ StatuslessFaults(report.results) # {}
    /\ report.stats.total_errors_request > 0
    /\ HistogramSum(report.stats) + report.stats.total_errors_request
          < report.stats.total_urls_processed


\* ---------------------------------------------------------------- C17
\* C17: get_domain returns the host[:port] of a URL of any scheme, and None,
\* not the empty string, for an input without a host.
C17_NoneWithoutHost ==
    util.fn = "get_domain" =>
        util.out = IF util.arg.netloc = "" THEN None ELSE util.arg.netloc

\* ---------------------------------------------------------------- C18
\* C18: process_blacklist_input raises IOError for an argument that contains a
\* path separator and names no existing file.
C18_MissingFileRaises ==
    (util.fn = "process_blacklist_input" /\ util.arg.given /\ util.arg.sep /\ ~util.arg.exists)
        => util.out.kind = "IOError"


\* ---------------------------------------------------------------- C19
QueuedUrls(q) == {q[i].url : i \in 1 .. Len(q)}

\* the items a step appends to the queue
Put == SubSeq(queue', Len(queue) + 1, Len(queue'))

\* C19 as stated: no URL is put on the work queue more than once in a run: a
\* URL that is put was never put before (it is neither waiting in the queue nor
\* taken from it) and is put once by that step.
C19_PutOnce ==
    [][Len(queue') > Len(queue) =>
          \A i \in 1 .. Len(Put) :
              /\ Put[i].url \notin visited_urls
              /\ Put[i].url \notin QueuedUrls(queue)
              /\ \A j \in 1 .. Len(Put) : Put[j].url = Put[i].url => j = i]_vars

\* C19 as amended: a link is put on the queue only if its URL is not in the
\* visited set at that moment, and the claim is made when an item is taken
\* from the queue: the first item of a URL claims it, a later item of the same
\* URL is dropped and marked done without being handed to a worker.
C19_ClaimAtDequeue ==
    [][/\ Len(queue') > Len(queue) =>
             \A i \in 1 .. Len(Put) : Put[i].url \notin visited_urls
       /\ Len(queue') < Len(queue) =>
             IF Head(queue).url \in visited_urls
             THEN /\ workers' = workers
                  /\ visited_urls' = visited_urls
                  /\ gets' = gets
                  /\ unfinished_tasks' = unfinished_tasks - 1
             ELSE /\ visited_urls' = visited_urls \cup {Head(queue).url}
                  /\ \E w \in DOMAIN workers : workers'[w].task = Head(queue)]_vars

\* two items of one URL wait in the queue, and one is dropped later
C19_Witness ==
    /\ \E i, j \in 1 .. Len(queue) : i # j /\ queue[i].url = queue[j].url
    /\ queue # <<>> /\ Head(queue).url \in visited_urls


\* ---------------------------------------------------------------- C20
OfDomain(rs, d) == {i \in 1 .. Len(rs) : rs[i].url.netloc = d}

\* C20 as stated: in the report every domain's count is the number of
\* processed URLs of that domain that got a response; a URL whose fetch ends in
\* a request error is not counted.
C20_CountedOnResponse ==
    report.made =>
        \A d \in Netlocs :
            report.stats.domain_counts[d] =
                Cardinality(OfDomain(report.results, d) \cap WithStatus(report.results))

\* C20 as amended: the domain histogram is updated when the processing of a
\* URL starts, before the request: every domain's count is the number of
\* requests made for URLs of that domain, and in the report the number of
\* results of that domain, whatever the outcome of the fetch.
C20_CountedOnStart ==
    /\ \A d \in Netlocs :
          stats.domain_counts[d] = SumOf(gets, {u \in DOMAIN gets : u.netloc = d})
    /\ report.made =>
          \A d \in Netlocs :
              report.stats.domain_counts[d] = Cardinality(OfDomain(report.results, d))

C20_Witness ==
    /\ report.made
    /\ \E i \in 1 .. Len(report.results) :
          /\ report.results[i].error = "Request Error"
          /\ report.stats.domain_counts[report.results[i].url.netloc]
                > Cardinality(OfDomain(report.results, report.results[i].url.netloc)
                                 \cap WithStatus(report.results))
    /\ report.stats.domain_counts[SiteB] > 0


\* ---------------------------------------------------------------- C21
\* the result a step appends
Appended == results'[Len(results')]

AppendsOne == Len(results') = Len(results) + 1

\* C21: a fetch answered 4xx/5xx leaves a result that keeps the status code
\* and the content size and carries an HTTP-status error; the histogram entry
\* of that code goes up by one, neither error counter moves and nothing is put
\* on the queue.
C21_HttpError ==
    [][(AppendsOne /\ (Appended.status_code >= 400 \/ Appended.error = "HTTP Status 404")) =>
          /\ Appended.status_code = 404
          /\ Appended.content_size >= 0
          /\ Appended.error = "HTTP Status 404"
          /\ Appended.title = ""
          /\ stats'.status_code_counts = CountUp(stats.status_code_counts, 404)
          /\ stats'.total_errors_request = stats.total_errors_request
          /\ stats'.total_errors_processing = stats.total_errors_processing
          /\ queue' = queue]_vars

C21_Witness ==
    /\ \E i \in 1 .. Len(results) :
          /\ results[i].status_code = 404
          /\ results[i].depth < max_depth
          /\ Links(results[i].url) # <<>>
    /\ stats.status_code_counts[404] > 0
    /\ stats.total_errors_request > 0


\* ---------------------------------------------------------------- C22
RequestErrors(rs) == {i \in 1 .. Len(rs) : rs[i].error = "Request Error"}

\* C22: a transport failure adds exactly one to the request-error counter and
\* leaves a result classified as a request error without a status code; the
\* status histogram and the processing-error counter do not move and nothing is
\* put on the queue; in the report the counter is the number of results
\* classified as request errors.
C22_RequestError ==
    /\ [][(AppendsOne /\ Appended.error = "Request Error") =>
             /\ Appended.status_code = 0
             /\ Appended.content_size = -1
             /\ stats'.total_errors_request = stats.total_errors_request + 1
             /\ stats'.status_code_counts = stats.status_code_counts
             /\ stats'.total_errors_processing = stats.total_errors_processing
             /\ queue' = queue]_vars
    /\ [](report.made =>
             report.stats.total_errors_request = Cardinality(RequestErrors(report.results)))

C22_Witness ==
    /\ report.made
    /\ Cardinality(RequestErrors(report.results)) = 2
    /\ HistogramSum(report.stats) > 2


\* ---------------------------------------------------------------- C23
\* the workers that hold an item taken from the queue and not yet marked done
Holding == {w \in DOMAIN workers : workers[w].pc \in {"acquire", "fetch"}}

ProcessingErrors(rs) == {i \in 1 .. Len(rs) : rs[i].error = "Processing Error"}

\* C23: no worker leaves its loop before its cancellation is requested; a fault
\* in the loop adds one to the processing-error counter, marks the item taken
\* done exactly once (the unfinished count is never negative and always counts
\* the items waiting or held), releases the limiter slot and leaves the worker
\* at the next dequeue.
C23_FaultKeepsWorker ==
    /\ [](/\ \A w \in DOMAIN workers : workers[w].pc = "finished" => workers[w].cancel
          /\ unfinished_tasks >= 0
          /\ unfinished_tasks = Len(queue) + Cardinality(Holding))
    /\ [][\A w \in DOMAIN workers :
             (worker_fault_get(w) \/ worker_fault_process(w)) =>
                 /\ stats'.total_errors_processing = stats.total_errors_processing + 1
                 /\ unfinished_tasks' = unfinished_tasks - 1
                 /\ semaphore' = semaphore
                 /\ semaphore' + Cardinality({v \in DOMAIN workers : workers'[v].pc = "fetch"})
                       = concurrency
                 /\ workers'[w].pc = "get"
                 /\ ~workers'[w].cancel
                 /\ phase' = "joining"]_vars

\* the only worker met a fault and is fetching the next URL
C23_Witness ==
    /\ Cardinality(DOMAIN workers) = 1
    /\ stats.total_errors_processing > Cardinality(ProcessingErrors(results))
    /\ stats.total_urls_processed > Len(results) + 1
    /\ workers[1].pc = "fetch"


\* ---------------------------------------------------------------- C24
\* C24: with concurrency 1 the depth of every result is the length of the
\* shortest path of followed links from the start URL to its url, and the
\* results are appended in non-decreasing order of depth.
C24_BreadthFirst ==
    (Constructed /\ concurrency = 1) =>
        /\ \A i \in 1 .. Len(results) :
              /\ results[i].url \in ReachableWithin(results[i].depth)
              /\ results[i].depth > 0 =>
                    results[i].url \notin ReachableWithin(results[i].depth - 1)
        /\ \A i, j \in 1 .. Len(results) : i < j => results[i].depth <= results[j].depth

\* a single worker's report in which /p, linked from /a and from /c, has the
\* depth of the shorter path and /t was reached behind it
C24_Witness ==
    /\ report.made
    /\ concurrency = 1
    /\ FetchedAsHtml(PageC)
    /\ \E i \in 1 .. Len(results) : results[i].url = PageP /\ results[i].depth = 2
    /\ \E i \in 1 .. Len(results) : results[i].url = PageT /\ results[i].depth = 3


\* ---------------------------------------------------------------- C25
\* C25: in the report of a run the processed counter, the number of results
\* and the size of the visited set are equal and the result URLs are the
\* visited set; during the run the number of results is at most the processed
\* counter, which is at most the size of the visited set.
C25_CountsAgree ==
    /\ Len(results) <= stats.total_urls_processed
    /\ stats.total_urls_processed <= Cardinality(visited_urls)
    /\ report.made =>
          /\ report.stats.total_urls_processed = Len(report.results)
          /\ Len(report.results) = Cardinality(visited_urls)
          /\ {report.results[i].url : i \in 1 .. Len(report.results)} = visited_urls

\* a report of five results or more, some of them request errors, of a run
\* with two workers
C25_Witness ==
    /\ report.made
    /\ Len(report.results) >= 5
    /\ RequestErrors(report.results) # {}
    /\ concurrency = 2


\* ---------------------------------------------------------------- C26
\* C26: the workers are cancelled only in the step in which join() returns,
\* and that step starts with nothing left to do: the queue is empty, every
\* worker waits at the dequeue and no limiter slot is held; from then on no
\* result is appended, and the results of the report are those held at the drain.
C26_CancelAfterDrain ==
    /\ [][(\E w \in DOMAIN workers : workers'[w].cancel /\ ~workers[w].cancel) =>
             /\ phase = "joining" /\ phase' = "gathering"
             /\ unfinished_tasks = 0
             /\ queue = <<>>
             /\ \A w \in DOMAIN workers : workers[w].pc = "get" /\ workers'[w].cancel
             /\ semaphore = concurrency]_vars
    /\ [][(phase = "gathering" \/ phase = "reported") =>
             (results' = results /\ (report'.made => report'.results = results))]_vars

\* the workers are being cancelled after a run of three results or more: one
\* has ended and the other has not yet
C26_Witness ==
    /\ phase = "gathering"
    /\ Len(results) >= 3
    /\ \E w \in DOMAIN workers : workers[w].pc = "finished"
    /\ \E w \in DOMAIN workers : workers[w].pc = "get" /\ workers[w].cancel

====
